---------------------------- MODULE Spec2Model ----------------------------
(***************************************************************************)
(* Model of api/mqtt-proxy.js: one invocation of the serverless handler,   *)
(* the MQTT client it creates in handlePublish (whose events are emitted   *)
(* by the environment), and the REST call made by handleGetStatus.         *)
(*                                                                         *)
(* Text is modelled as a sequence of one-character strings so that         *)
(* JSON.parse can be computed; messages built with template literals are   *)
(* sequences of their parts.                                               *)
(***************************************************************************)
EXTENDS Integers, Sequences, FiniteSets, TLC

\* Largest number of 'error' events the MQTT client emits in one invocation.
MaxErrors == 2

----------------------------------------------------------------------------
\* JavaScript values

\* The value `undefined` (an unset environment variable, a missing property).
Undefined == "<undefined>"

\* JavaScript truthiness of an environment variable / property holding a string.
FalsyString(s) == s = Undefined \/ s = ""

\* Parsed JSON values. A number is an infinity, or the double nearest to the
\* decimal (-1)^neg * d * 10^x, d being its digits without leading or trailing
\* zero (empty for zero). Decimals of up to 15 digits denote distinct doubles.
JNull == [t |-> "null"]
JBool(b) == [t |-> "bool", b |-> b]
JNum(neg, d, x) == [t |-> "num", neg |-> neg, inf |-> FALSE, d |-> d, x |-> x]
JInfinity(neg) == [t |-> "num", neg |-> neg, inf |-> TRUE, d |-> <<>>, x |-> 0]
JStr(s) == [t |-> "str", s |-> s]
JArr(e) == [t |-> "arr", e |-> e]
JObj(m) == [t |-> "obj", m |-> m]

\* What a response carries when it has no `data` property.
NoData == [t |-> "undefined"]

\* JavaScript truthiness of a parsed JSON value (the test `if (data)`).
Truthy(v) ==
    CASE v.t = "null" -> FALSE
      [] v.t = "bool" -> v.b
      [] v.t = "num" -> v.inf \/ v.d # <<>>
      [] v.t = "str" -> v.s # <<>>
      [] OTHER -> TRUE

----------------------------------------------------------------------------
\* Characters. A text is a sequence of UTF-16 code units, each written as a
\* one-character string when TLA+ can write it (U+0020..U+007E but the grave
\* accent, tab, line feed, form feed, carriage return) and as "U+XXXX"
\* otherwise.

Quote == "\""
Backslash == "\\"
Digits == {"0", "1", "2", "3", "4", "5", "6", "7", "8", "9"}
HexDigits == Digits \cup {"a", "b", "c", "d", "e", "f", "A", "B", "C", "D", "E", "F"}

\* U+0020 .. U+007E
Printable ==
    << " ", "!", "\"", "#", "$", "%", "&", "'", "(", ")", "*", "+", ",", "-", ".", "/",
       "0", "1", "2", "3", "4", "5", "6", "7", "8", "9", ":", ";", "<", "=", ">", "?",
       "@", "A", "B", "C", "D", "E", "F", "G", "H", "I", "J", "K", "L", "M", "N", "O",
       "P", "Q", "R", "S", "T", "U", "V", "W", "X", "Y", "Z", "[", "\\", "]", "^", "_",
       "U+0060", "a", "b", "c", "d", "e", "f", "g", "h", "i", "j", "k", "l", "m", "n", "o",
       "p", "q", "r", "s", "t", "u", "v", "w", "x", "y", "z", "{", "|", "}", "~" >>

HexChars == <<"0", "1", "2", "3", "4", "5", "6", "7", "8", "9", "A", "B", "C", "D", "E", "F">>

Hex4(code) ==
    HexChars[(code \div 4096) + 1] \o HexChars[((code \div 256) % 16) + 1]
        \o HexChars[((code \div 16) % 16) + 1] \o HexChars[(code % 16) + 1]

\* The code unit with the given code.
Chr(code) ==
    IF code \in 32..126 THEN Printable[code - 31]
    ELSE CASE code = 9 -> "\t"
           [] code = 10 -> "\n"
           [] code = 12 -> "\f"
           [] code = 13 -> "\r"
           [] OTHER -> "U+" \o Hex4(code)

\* U+0000 .. U+001F, which a JSON string may not hold unescaped.
ControlChars == {Chr(c) : c \in 0..31}

DigitVal(c) ==
    CASE c = "0" -> 0 [] c = "1" -> 1 [] c = "2" -> 2 [] c = "3" -> 3
      [] c = "4" -> 4 [] c = "5" -> 5 [] c = "6" -> 6 [] c = "7" -> 7
      [] c = "8" -> 8 [] c = "9" -> 9

HexVal(c) ==
    CASE c \in Digits -> DigitVal(c)
      [] c \in {"a", "A"} -> 10 [] c \in {"b", "B"} -> 11 [] c \in {"c", "C"} -> 12
      [] c \in {"d", "D"} -> 13 [] c \in {"e", "E"} -> 14 [] c \in {"f", "F"} -> 15

----------------------------------------------------------------------------
\* JSON.parse (ECMA-404 grammar, ECMAScript semantics of the result)

\* Insignificant whitespace: space, tab, line feed, carriage return.
WS == {" ", "\t", "\n", "\r"}

Drop(s, n) == SubSeq(s, n + 1, Len(s))

StartsWith(s, p) == Len(s) >= Len(p) /\ SubSeq(s, 1, Len(p)) = p

\* Length of the longest prefix of s made of characters of the set.
PrefixLen(s, set) ==
    CHOOSE n \in 0..Len(s) :
        /\ \A j \in 1..n : s[j] \in set
        /\ n = Len(s) \/ s[n + 1] \notin set

\* Length of the longest suffix of s made of characters of the set.
SuffixLen(s, set) ==
    CHOOSE n \in 0..Len(s) :
        /\ \A j \in (Len(s) - n + 1)..Len(s) : s[j] \in set
        /\ n = Len(s) \/ s[Len(s) - n] \notin set

SkipWS(s) == Drop(s, PrefixLen(s, WS))

\* Number of leading digits of s.
DigitRun(s) == PrefixLen(s, Digits)

RECURSIVE NumVal(_)
NumVal(d) == IF d = <<>> THEN 0 ELSE 10 * NumVal(SubSeq(d, 1, Len(d) - 1)) + DigitVal(d[Len(d)])

StripLeadingZeros(d) == Drop(d, PrefixLen(d, {"0"}))

StripTrailingZeros(d) == SubSeq(d, 1, Len(d) - SuffixLen(d, {"0"}))

\* Order of the fractions 0.a and 0.b: -1, 0 or 1.
CmpDigits(a, b) ==
    LET n == IF Len(a) > Len(b) THEN Len(a) ELSE Len(b)
        at(d, i) == IF i <= Len(d) THEN DigitVal(d[i]) ELSE 0
        differ == {i \in 1..n : at(a, i) # at(b, i)}
        first == CHOOSE i \in differ : \A j \in differ : i <= j
    IN  IF differ = {} THEN 0
        ELSE IF at(a, first) < at(b, first) THEN -1
        ELSE 1

\* The digits of 2^1024 - 2^970 (309 of them): a decimal of that size or more
\* rounds to Infinity.
OverflowDigits ==
    << "1", "7", "9", "7", "6", "9", "3", "1", "3", "4", "8", "6", "2", "3", "1", "5", "8", "0", "7", "9",
       "3", "7", "2", "8", "9", "7", "1", "4", "0", "5", "3", "0", "3", "4", "1", "5", "0", "7", "9", "9",
       "3", "4", "1", "3", "2", "7", "1", "0", "0", "3", "7", "8", "2", "6", "9", "3", "6", "1", "7", "3",
       "7", "7", "8", "9", "8", "0", "4", "4", "4", "9", "6", "8", "2", "9", "2", "7", "6", "4", "7", "5",
       "0", "9", "4", "6", "6", "4", "9", "0", "1", "7", "9", "7", "7", "5", "8", "7", "2", "0", "7", "0",
       "9", "6", "3", "3", "0", "2", "8", "6", "4", "1", "6", "6", "9", "2", "8", "8", "7", "9", "1", "0",
       "9", "4", "6", "5", "5", "5", "5", "4", "7", "8", "5", "1", "9", "4", "0", "4", "0", "2", "6", "3",
       "0", "6", "5", "7", "4", "8", "8", "6", "7", "1", "5", "0", "5", "8", "2", "0", "6", "8", "1", "9",
       "0", "8", "9", "0", "2", "0", "0", "0", "7", "0", "8", "3", "8", "3", "6", "7", "6", "2", "7", "3",
       "8", "5", "4", "8", "4", "5", "8", "1", "7", "7", "1", "1", "5", "3", "1", "7", "6", "4", "4", "7",
       "5", "7", "3", "0", "2", "7", "0", "0", "6", "9", "8", "5", "5", "5", "7", "1", "3", "6", "6", "9",
       "5", "9", "6", "2", "2", "8", "4", "2", "9", "1", "4", "8", "1", "9", "8", "6", "0", "8", "3", "4",
       "9", "3", "6", "4", "7", "5", "2", "9", "2", "7", "1", "9", "0", "7", "4", "1", "6", "8", "4", "4",
       "4", "3", "6", "5", "5", "1", "0", "7", "0", "4", "3", "4", "2", "7", "1", "1", "5", "5", "9", "6",
       "9", "9", "5", "0", "8", "0", "9", "3", "0", "4", "2", "8", "8", "0", "1", "7", "7", "9", "0", "4",
       "1", "7", "4", "4", "9", "7", "7", "9", "2" >>

\* The digits of 2^-1075, which is 0.UnderflowDigits * 10^-323 (the 752 digits
\* of 5^1075): a decimal of that size or less rounds to zero.
UnderflowDigits ==
    << "2", "4", "7", "0", "3", "2", "8", "2", "2", "9", "2", "0", "6", "2", "3", "2", "7", "2", "0", "8",
       "8", "2", "8", "4", "3", "9", "6", "4", "3", "4", "1", "1", "0", "6", "8", "6", "1", "8", "2", "5",
       "2", "9", "9", "0", "1", "3", "0", "7", "1", "6", "2", "3", "8", "2", "2", "1", "2", "7", "9", "2",
       "8", "4", "1", "2", "5", "0", "3", "3", "7", "7", "5", "3", "6", "3", "5", "1", "0", "4", "3", "7",
       "5", "9", "3", "2", "6", "4", "9", "9", "1", "8", "1", "8", "0", "8", "1", "7", "9", "9", "6", "1",
       "8", "9", "8", "9", "8", "2", "8", "2", "3", "4", "7", "7", "2", "2", "8", "5", "8", "8", "6", "5",
       "4", "6", "3", "3", "2", "8", "3", "5", "5", "1", "7", "7", "9", "6", "9", "8", "9", "8", "1", "9",
       "9", "3", "8", "7", "3", "9", "8", "0", "0", "5", "3", "9", "0", "9", "3", "9", "0", "6", "3", "1",
       "5", "0", "3", "5", "6", "5", "9", "5", "1", "5", "5", "7", "0", "2", "2", "6", "3", "9", "2", "2",
       "9", "0", "8", "5", "8", "3", "9", "2", "4", "4", "9", "1", "0", "5", "1", "8", "4", "4", "3", "5",
       "9", "3", "1", "8", "0", "2", "8", "4", "9", "9", "3", "6", "5", "3", "6", "1", "5", "2", "5", "0",
       "0", "3", "1", "9", "3", "7", "0", "4", "5", "7", "6", "7", "8", "2", "4", "9", "2", "1", "9", "3",
       "6", "5", "6", "2", "3", "6", "6", "9", "8", "6", "3", "6", "5", "8", "4", "8", "0", "7", "5", "7",
       "0", "0", "1", "5", "8", "5", "7", "6", "9", "2", "6", "9", "9", "0", "3", "7", "0", "6", "3", "1",
       "1", "9", "2", "8", "2", "7", "9", "5", "5", "8", "5", "5", "1", "3", "3", "2", "9", "2", "7", "8",
       "3", "4", "3", "3", "8", "4", "0", "9", "3", "5", "1", "9", "7", "8", "0", "1", "5", "5", "3", "1",
       "2", "4", "6", "5", "9", "7", "2", "6", "3", "5", "7", "9", "5", "7", "4", "6", "2", "2", "7", "6",
       "6", "4", "6", "5", "2", "7", "2", "8", "2", "7", "2", "2", "0", "0", "5", "6", "3", "7", "4", "0",
       "0", "6", "4", "8", "5", "4", "9", "9", "9", "7", "7", "0", "9", "6", "5", "9", "9", "4", "7", "0",
       "4", "5", "4", "0", "2", "0", "8", "2", "8", "1", "6", "6", "2", "2", "6", "2", "3", "7", "8", "5",
       "7", "3", "9", "3", "4", "5", "0", "7", "3", "6", "3", "3", "9", "0", "0", "7", "9", "6", "7", "7",
       "6", "1", "9", "3", "0", "5", "7", "7", "5", "0", "6", "7", "4", "0", "1", "7", "6", "3", "2", "4",
       "6", "7", "3", "6", "0", "0", "9", "6", "8", "9", "5", "1", "3", "4", "0", "5", "3", "5", "5", "3",
       "7", "4", "5", "8", "5", "1", "6", "6", "6", "1", "1", "3", "4", "2", "2", "3", "7", "6", "6", "6",
       "7", "8", "6", "0", "4", "1", "6", "2", "1", "5", "9", "6", "8", "0", "4", "6", "1", "9", "1", "4",
       "4", "6", "7", "2", "9", "1", "8", "4", "0", "3", "0", "0", "5", "3", "0", "0", "5", "7", "5", "3",
       "0", "8", "4", "9", "0", "4", "8", "7", "6", "5", "3", "9", "1", "7", "1", "1", "3", "8", "6", "5",
       "9", "1", "6", "4", "6", "2", "3", "9", "5", "2", "4", "9", "1", "2", "6", "2", "3", "6", "5", "3",
       "8", "8", "1", "8", "7", "9", "6", "3", "6", "2", "3", "9", "3", "7", "3", "2", "8", "0", "4", "2",
       "3", "8", "9", "1", "0", "1", "8", "6", "7", "2", "3", "4", "8", "4", "9", "7", "6", "6", "8", "2",
       "3", "5", "0", "8", "9", "8", "6", "3", "3", "8", "8", "5", "8", "7", "9", "2", "5", "6", "2", "8",
       "3", "0", "2", "7", "5", "5", "9", "9", "5", "6", "5", "7", "5", "2", "4", "4", "5", "5", "5", "0",
       "7", "2", "5", "5", "1", "8", "9", "3", "1", "3", "6", "9", "0", "8", "3", "6", "2", "5", "4", "7",
       "7", "9", "1", "8", "6", "9", "4", "8", "6", "6", "7", "9", "9", "4", "9", "6", "8", "3", "2", "4",
       "0", "4", "9", "7", "0", "5", "8", "2", "1", "0", "2", "8", "5", "1", "3", "1", "8", "5", "4", "5",
       "1", "3", "9", "6", "2", "1", "3", "8", "3", "7", "7", "2", "2", "8", "2", "6", "1", "4", "5", "4",
       "3", "7", "6", "9", "3", "4", "1", "2", "5", "3", "2", "0", "9", "8", "5", "9", "1", "3", "2", "7",
       "6", "6", "7", "2", "3", "6", "3", "2", "8", "1", "2", "5" >>

\* The value of an exponent's digits, saturated (exact up to 5 digits, which
\* decides every text of fewer than 90000 digits).
ExpVal(d) ==
    LET z == StripLeadingZeros(d)
    IN  IF Len(z) > 5 THEN 99999 ELSE NumVal(z)

\* The double denoted by the decimal (-1)^neg * digits * 10^x.
ToDouble(neg, digits, x) ==
    LET lz == StripLeadingZeros(digits)
        d == StripTrailingZeros(lz)
        lead == Len(lz) + x
    IN  IF d = <<>> THEN JNum(neg, <<>>, 0)
        ELSE IF lead > 309 \/ (lead = 309 /\ CmpDigits(d, OverflowDigits) >= 0)
        THEN JInfinity(neg)
        ELSE IF lead < -323 \/ (lead = -323 /\ CmpDigits(d, UnderflowDigits) <= 0)
        THEN JNum(neg, <<>>, 0)
        ELSE JNum(neg, d, lead - Len(d))

ParseFail == [ok |-> FALSE, val |-> JNull, rest |-> <<>>]
ParseOk(v, rest) == [ok |-> TRUE, val |-> v, rest |-> rest]

\* The character a two-character escape stands for.
Unescape(c) ==
    CASE c = "b" -> Chr(8)
      [] c = "f" -> "\f"
      [] c = "n" -> "\n"
      [] c = "r" -> "\r"
      [] c = "t" -> "\t"
      [] OTHER -> c

\* Position i of s (after the opening quote at 1) follows an odd run of
\* backslashes: it is the second character of an escape.
Escaped(s, i) ==
    LET run == CHOOSE k \in 0..(i - 2) :
                   /\ \A j \in (i - k)..(i - 1) : s[j] = Backslash
                   /\ k = i - 2 \/ s[i - k - 1] # Backslash
    IN  run % 2 = 1

\* Position i of s is one of the four hex digits of a \u escape.
InHex(s, i) ==
    \E e \in (i - 4)..(i - 1) : e >= 3 /\ s[e] = "u" /\ Escaped(s, e)

\* The character at position i may stand there in a string closed at close.
ValidAt(s, i, close) ==
    IF Escaped(s, i)
    THEN \/ s[i] \in {Quote, Backslash, "/", "b", "f", "n", "r", "t"}
         \/ s[i] = "u" /\ i + 4 < close /\ \A j \in 1..4 : s[i + j] \in HexDigits
    ELSE s[i] \notin ControlChars

\* What position i of a valid string adds to its value.
DecodeAt(s, i) ==
    IF Escaped(s, i)
    THEN IF s[i] = "u"
         THEN << Chr(4096 * HexVal(s[i + 1]) + 256 * HexVal(s[i + 2])
                         + 16 * HexVal(s[i + 3]) + HexVal(s[i + 4])) >>
         ELSE << Unescape(s[i]) >>
    ELSE IF s[i] = Backslash \/ InHex(s, i) THEN <<>>
    ELSE << s[i] >>

\* The value of positions lo..hi of a valid string.
RECURSIVE Decode(_, _, _)
Decode(s, lo, hi) ==
    IF lo > hi THEN <<>>
    ELSE IF lo = hi THEN DecodeAt(s, lo)
    ELSE LET mid == (lo + hi) \div 2
         IN  Decode(s, lo, mid) \o Decode(s, mid + 1, hi)

\* s starts with a quote: the string ends at the first quote that is not
\* escaped.
ParseString(s) ==
    LET closes == {i \in 2..Len(s) : s[i] = Quote /\ ~Escaped(s, i)}
        close == CHOOSE i \in closes : \A j \in closes : i <= j
    IN  IF closes = {} THEN ParseFail
        ELSE IF \E i \in 2..(close - 1) : ~ValidAt(s, i, close) THEN ParseFail
        ELSE ParseOk(JStr(Decode(s, 2, close - 1)), Drop(s, close))

\* s starts with a digit or a minus sign:
\* -? (0 | [1-9][0-9]*) (. [0-9]+)? ([eE] [+-]? [0-9]+)?
ParseNumber(s) ==
    LET neg == Head(s) = "-"
        body == IF neg THEN Tail(s) ELSE s
        run == DigitRun(body)
        ilen == IF run > 0 /\ Head(body) = "0" THEN 1 ELSE run
        afterInt == Drop(body, ilen)
        flen == IF afterInt # <<>> /\ Head(afterInt) = "." THEN DigitRun(Tail(afterInt)) ELSE 0
        frac == SubSeq(afterInt, 2, flen + 1)
        afterFrac == IF flen > 0 THEN Drop(afterInt, flen + 1) ELSE afterInt
        hasE == afterFrac # <<>> /\ Head(afterFrac) \in {"e", "E"}
        afterE == IF hasE THEN Tail(afterFrac) ELSE <<>>
        signed == afterE # <<>> /\ Head(afterE) \in {"+", "-"}
        edigits == IF signed THEN Tail(afterE) ELSE afterE
        elen == DigitRun(edigits)
        mag == ExpVal(SubSeq(edigits, 1, elen))
        exp == IF signed /\ Head(afterE) = "-" THEN 0 - mag ELSE mag
        rest == IF elen > 0 THEN Drop(edigits, elen) ELSE afterFrac
    IN  IF run = 0 THEN ParseFail
        ELSE ParseOk(ToDouble(neg, SubSeq(body, 1, ilen) \o frac, exp - flen), rest)

\* A key that is an array index ("0" .. "4294967294", canonically written).
IsIndexKey(k) ==
    /\ k # <<>>
    /\ \A i \in 1..Len(k) : k[i] \in Digits
    /\ Len(k) = 1 \/ k[1] # "0"
    /\ \/ Len(k) < 10
       \/ Len(k) = 10 /\ CmpDigits(k, <<"4", "2", "9", "4", "9", "6", "7", "2", "9", "4">>) <= 0

\* Numeric order of two index keys.
IndexLess(a, b) == Len(a) < Len(b) \/ (Len(a) = Len(b) /\ CmpDigits(a, b) < 0)

\* An object's members in the order of its own keys: index keys ascending,
\* then the other keys in order of creation; a member of an existing key
\* replaces its value in place.
PutMember(m, k, v) ==
    IF \E i \in 1..Len(m) : m[i][1] = k
    THEN LET i == CHOOSE i \in 1..Len(m) : m[i][1] = k
         IN  SubSeq(m, 1, i - 1) \o << <<k, v>> >> \o SubSeq(m, i + 1, Len(m))
    ELSE IF IsIndexKey(k)
    THEN LET n == Cardinality({i \in 1..Len(m) : IsIndexKey(m[i][1]) /\ IndexLess(m[i][1], k)})
         IN  SubSeq(m, 1, n) \o << <<k, v>> >> \o SubSeq(m, n + 1, Len(m))
    ELSE Append(m, <<k, v>>)

RECURSIVE ParseValue(_), ParseMembers(_, _), ParseElements(_, _)
ParseValue(s) ==
    LET t == SkipWS(s)
    IN  IF t = <<>> THEN ParseFail
        ELSE IF StartsWith(t, <<"n", "u", "l", "l">>) THEN ParseOk(JNull, Drop(t, 4))
        ELSE IF StartsWith(t, <<"t", "r", "u", "e">>) THEN ParseOk(JBool(TRUE), Drop(t, 4))
        ELSE IF StartsWith(t, <<"f", "a", "l", "s", "e">>) THEN ParseOk(JBool(FALSE), Drop(t, 5))
        ELSE IF Head(t) = Quote THEN ParseString(t)
        ELSE IF Head(t) \in Digits \cup {"-"} THEN ParseNumber(t)
        ELSE IF Head(t) = "{"
        THEN LET u == SkipWS(Tail(t))
             IN  IF u # <<>> /\ Head(u) = "}" THEN ParseOk(JObj(<<>>), Tail(u))
                 ELSE ParseMembers(u, <<>>)
        ELSE IF Head(t) = "["
        THEN LET u == SkipWS(Tail(t))
             IN  IF u # <<>> /\ Head(u) = "]" THEN ParseOk(JArr(<<>>), Tail(u))
                 ELSE ParseElements(u, <<>>)
        ELSE ParseFail

\* s is what follows "{" or ",", acc the members read so far:
\* string ":" value ("," members | "}")
ParseMembers(s, acc) ==
    IF s = <<>> \/ Head(s) # Quote THEN ParseFail
    ELSE LET key == ParseString(s)
             colon == SkipWS(key.rest)
         IN  IF ~key.ok \/ colon = <<>> \/ Head(colon) # ":" THEN ParseFail
             ELSE LET v == ParseValue(Tail(colon))
                      after == SkipWS(v.rest)
                      members == PutMember(acc, key.val.s, v.val)
                  IN  IF ~v.ok \/ after = <<>> THEN ParseFail
                      ELSE IF Head(after) = "}" THEN ParseOk(JObj(members), Tail(after))
                      ELSE IF Head(after) = "," THEN ParseMembers(SkipWS(Tail(after)), members)
                      ELSE ParseFail

\* s is what follows "[" or ",", acc the elements read so far:
\* value ("," elements | "]")
ParseElements(s, acc) ==
    LET v == ParseValue(s)
        after == SkipWS(v.rest)
        elements == Append(acc, v.val)
    IN  IF ~v.ok \/ after = <<>> THEN ParseFail
        ELSE IF Head(after) = "]" THEN ParseOk(JArr(elements), Tail(after))
        ELSE IF Head(after) = "," THEN ParseElements(SkipWS(Tail(after)), elements)
        ELSE ParseFail

\* JSON.parse(text): ok = FALSE models the SyntaxError it throws.
JSONParse(text) ==
    LET r == ParseValue(text)
    IN  IF r.ok /\ SkipWS(r.rest) = <<>> THEN [ok |-> TRUE, val |-> r.val]
        ELSE [ok |-> FALSE, val |-> JNull]

----------------------------------------------------------------------------
\* Inputs of the model

Methods == {"GET", "POST", "DELETE"}

\* Values of an environment variable: unset, empty, set.
EnvValues == {Undefined, "", "aio_user"}

Actions == {"send_motor_command", "get_device_status", "reboot", Undefined}
Payloads == {Undefined, "ON", "OFF"}

\* request.body: absent (undefined), or an object with optional action and payload.
NoBody == [present |-> FALSE, action |-> Undefined, payload |-> Undefined]
Bodies == {NoBody} \cup [present : {TRUE}, action : Actions, payload : Payloads]

\* Messages of the Error objects the MQTT client emits with its 'error' event.
ErrorMessages == {<<"ECONNREFUSED">>, <<"Not authorized">>}

\* The err argument of the publish callback: none, or an Error.
NoErr == <<>>
PublishErrs == {NoErr, <<"client disconnecting">>}

\* HTTP statuses the REST endpoint answers with.
ApiStatuses == {200, 401, 404, 500}

\* The `value` strings of a feed's last datum: empty, JSON texts whose value
\* is falsy (null, false, 0, 0.0, 1e-400, ""), JSON texts whose value is
\* truthy (among them a text with tab and line feed around it, a string with
\* an escape, an object with an index key after another key), and texts that
\* are not JSON (among them a string holding a raw tab).
RawValues ==
    { <<>>,
      <<"n", "u", "l", "l">>,
      <<"f", "a", "l", "s", "e">>,
      <<"0">>,
      <<"0", ".", "0">>,
      <<"1", "e", "-", "4", "0", "0">>,
      <<Quote, Quote>>,
      <<"\t", "7", "\n">>,
      <<"2", "1", ".", "5">>,
      <<Quote, "O", Backslash, "n", "N", Quote>>,
      <<"{", Quote, "t", Quote, ":", "2", "1", ".", "5", ",", " ",
        Quote, "1", Quote, ":", "[", "t", "r", "u", "e", "]", "}">>,
      <<"O", "N">>,
      <<Quote, "O", "\t", "N", Quote>>,
      <<"{", Quote, "t", Quote, ":">> }

\* What apiResponse.json() resolves with: null, an object without a value
\* property, or an object whose value is a string.
ApiNull == [kind |-> "null", hasValue |-> FALSE, value |-> <<>>]
ApiNoValue == [kind |-> "object", hasValue |-> FALSE, value |-> <<>>]
ApiBodies == {ApiNull, ApiNoValue} \cup [kind : {"object"}, hasValue : {TRUE}, value : RawValues]

----------------------------------------------------------------------------
\* State

VARIABLES
    ADAFRUIT_IO_USERNAME,   \* process.env.ADAFRUIT_IO_USERNAME, read at load
    ADAFRUIT_IO_KEY,        \* process.env.ADAFRUIT_IO_KEY, read at load
    pc,                     \* where the handler invocation stands
    request,                \* the request of the invocation
    responses,              \* the responses sent, in order
    log,                    \* the console.error calls, in order
    promise,                \* the promise handlePublish returns
    mqtt,                   \* calls made on, and events emitted by, the MQTT client
    fetches,                \* the REST requests issued
    rest                    \* what the REST endpoint answered

vars == <<ADAFRUIT_IO_USERNAME, ADAFRUIT_IO_KEY, pc, request, responses, log,
          promise, mqtt, fetches, rest>>

TOPIC_CONTROL == <<ADAFRUIT_IO_USERNAME, "/feeds/motor_control">>
TOPIC_STATUS == <<ADAFRUIT_IO_USERNAME, "/feeds/esp32_status">>

NoPromise == [state |-> "none", reason |-> <<>>]
NoRest == [state |-> "none", status |-> 0, data |-> ApiNull]

Init ==
    /\ ADAFRUIT_IO_USERNAME \in EnvValues
    /\ ADAFRUIT_IO_KEY \in EnvValues
    /\ pc = "idle"
    /\ request = [method |-> "POST", body |-> NoBody]
    /\ responses = <<>>
    /\ log = <<>>
    /\ promise = NoPromise
    /\ mqtt = <<>>
    /\ fetches = <<>>
    /\ rest = NoRest

----------------------------------------------------------------------------
\* handler

\* response.status(code).json({status, details}) / json({status, data})
Response(code, status, details, data) ==
    [code |-> code, status |-> status, details |-> details, data |-> data]

\* !ADAFRUIT_IO_USERNAME || !ADAFRUIT_IO_KEY
CredentialsMissing_OnlyBoth(user, key) == FalsyString(user) /\ FalsyString(key)
CredentialsMissing(user, key) == FalsyString(user) \/ FalsyString(key)

\* The two validation steps, in order: the status code of the rejection, 0 if none.
Validate_CredentialsFirst(method, user, key) ==
    IF CredentialsMissing(user, key) THEN 500
    ELSE IF method # "POST" THEN 405
    ELSE 0
Validate(method, user, key) ==
    IF method # "POST" THEN 405
    ELSE IF CredentialsMissing(user, key) THEN 500
    ELSE 0

ValidationResponse(code) ==
    IF code = 405
    THEN Response(405, "error", <<"Method Not Allowed">>, NoData)
    ELSE Response(500, "error", <<"MQTT credentials are not configured on the server.">>, NoData)

\* The branch the action field selects.
Route_DefaultStatus(action) ==
    IF action = "send_motor_command" THEN "publish" ELSE "status"
Route(action) ==
    IF action = "send_motor_command" THEN "publish"
    ELSE IF action = "get_device_status" THEN "status"
    ELSE "invalid"

\* The catch block: logs error.message and answers 500 with it.
CatchResponse_Generic(message) ==
    Response(500, "error", <<"Internal Server Error">>, NoData)
CatchResponse(message) == Response(500, "error", message, NoData)

CatchLog(message) == <<"[PROXY_ERROR]", message>>

\* After `await handleGetStatus`: `if (data)` decides between 200 and 404.
StatusResponse(data) ==
    IF Truthy(data)
    THEN Response(200, "success", <<>>, data)
    ELSE Response(404, "error",
                  <<"Status not found. Device may be offline or has not sent data.">>, NoData)

\* The handler from its entry to its first await, or to its return.
Handler(method, body) ==
    /\ pc = "idle"
    /\ request' = [method |-> method, body |-> body]
    /\ LET v == Validate(method, ADAFRUIT_IO_USERNAME, ADAFRUIT_IO_KEY)
       IN  IF v # 0
           THEN /\ responses' = Append(responses, ValidationResponse(v))
                /\ pc' = "done"
                /\ UNCHANGED <<promise, mqtt, fetches>>
           ELSE IF ~body.present
           THEN \* destructuring undefined throws a TypeError outside the try block
                /\ pc' = "threw"
                /\ UNCHANGED <<responses, promise, mqtt, fetches>>
           ELSE IF Route(body.action) = "publish"
           THEN \* handlePublish: mqtt.connect and the two client.on calls
                /\ mqtt' = Append(mqtt, <<"mqtt.connect", <<>>>>)
                /\ promise' = [state |-> "pending", reason |-> <<>>]
                /\ pc' = "awaitPublish"
                /\ UNCHANGED <<responses, fetches>>
           ELSE IF Route(body.action) = "status"
           THEN \* handleGetStatus: fetch(apiUrl, headers)
                /\ fetches' = Append(fetches, <<ADAFRUIT_IO_USERNAME, "esp32_status">>)
                /\ pc' = "awaitFetch"
                /\ UNCHANGED <<responses, promise, mqtt>>
           ELSE /\ responses' = Append(responses,
                        Response(400, "error", <<"Invalid action specified.">>, NoData))
                /\ pc' = "done"
                /\ UNCHANGED <<promise, mqtt, fetches>>
    /\ UNCHANGED <<ADAFRUIT_IO_USERNAME, ADAFRUIT_IO_KEY, log, rest>>

----------------------------------------------------------------------------
\* handlePublish

\* Number of entries of the client's record with a tag.
RECURSIVE Count(_, _)
Count(seq, tag) ==
    IF seq = <<>> THEN 0
    ELSE (IF Head(seq)[1] = tag THEN 1 ELSE 0) + Count(Tail(seq), tag)

\* resolve() / reject(reason): a promise settles once, later calls do nothing.
Settle_LastWins(p, state, reason) == [state |-> state, reason |-> reason]
Settle(p, state, reason) ==
    IF p.state = "pending" THEN [state |-> state, reason |-> reason] ELSE p

\* new Error(`MQTT connection failed: ${err.message}`)
ConnectionFailed(message) == <<"MQTT connection failed: ">> \o message

\* new Error('Failed to publish message.')
PublishFailed == <<"Failed to publish message.">>

\* The client emits 'connect' (at most once: reconnectPeriod is 0); the
\* listener serializes the command and calls client.publish.
OnConnect ==
    /\ promise.state # "none"
    /\ Count(mqtt, "on:connect") = 0
    /\ mqtt' = mqtt \o << <<"on:connect", <<>>>>,
                          <<"client.publish", TOPIC_CONTROL \o <<request.body.payload>>>> >>
    /\ UNCHANGED <<ADAFRUIT_IO_USERNAME, ADAFRUIT_IO_KEY, pc, request, responses, log,
                   promise, fetches, rest>>

\* The callback of client.publish runs with err: client.end(), then the
\* promise is rejected (and the error logged) or resolved.
PublishCallback(err) ==
    /\ Count(mqtt, "client.publish") > Count(mqtt, "ack")
    /\ mqtt' = mqtt \o << <<"ack", err>>, <<"client.end", <<>>>> >>
    /\ IF err # NoErr
       THEN /\ log' = Append(log, <<"[MQTT_PUBLISH_ERROR]", err>>)
            /\ promise' = Settle(promise, "rejected", PublishFailed)
       ELSE /\ log' = log
            /\ promise' = Settle(promise, "fulfilled", <<>>)
    /\ UNCHANGED <<ADAFRUIT_IO_USERNAME, ADAFRUIT_IO_KEY, pc, request, responses,
                   fetches, rest>>

\* The client emits 'error' with an Error: client.end(), then reject.
OnError(message) ==
    /\ promise.state # "none"
    /\ Count(mqtt, "on:error") < MaxErrors
    /\ mqtt' = mqtt \o << <<"on:error", message>>, <<"client.end", <<>>>> >>
    /\ promise' = Settle(promise, "rejected", ConnectionFailed(message))
    /\ UNCHANGED <<ADAFRUIT_IO_USERNAME, ADAFRUIT_IO_KEY, pc, request, responses, log,
                   fetches, rest>>

\* The handler resumes after `await handlePublish(...)`.
ResumeAfterPublish ==
    /\ pc = "awaitPublish"
    /\ promise.state \in {"fulfilled", "rejected"}
    /\ IF promise.state = "fulfilled"
       THEN /\ responses' = Append(responses,
                    Response(200, "success", <<"Command published.">>, NoData))
            /\ log' = log
       ELSE /\ log' = Append(log, CatchLog(promise.reason))
            /\ responses' = Append(responses, CatchResponse(promise.reason))
    /\ pc' = "done"
    /\ UNCHANGED <<ADAFRUIT_IO_USERNAME, ADAFRUIT_IO_KEY, request, promise, mqtt,
                   fetches, rest>>

----------------------------------------------------------------------------
\* handleGetStatus

\* apiResponse.ok
Ok(status) == status \in 200..299

\* `if (!apiResponse.ok)`: a 404 returns null, any other status throws.
NotOkOutcome_AlwaysThrows(status) ==
    [throws |-> TRUE,
     message |-> <<"Adafruit API request failed with status ", ToString(status)>>]
NotOkOutcome(status) ==
    IF status = 404
    THEN [throws |-> FALSE, message |-> <<>>]
    ELSE [throws |-> TRUE,
          message |-> <<"Adafruit API request failed with status ", ToString(status)>>]

\* `!data || !data.value`
NoValue(data) == data.kind = "null" \/ ~data.hasValue \/ data.value = <<>>

MalformedData == <<"Received malformed status data from the device.">>

\* fetch rejects (a network failure): the catch block of the handler answers.
FetchRejects ==
    /\ pc = "awaitFetch"
    /\ rest' = [state |-> "failed", status |-> 0, data |-> ApiNull]
    /\ log' = Append(log, CatchLog(<<"fetch failed">>))
    /\ responses' = Append(responses, CatchResponse(<<"fetch failed">>))
    /\ pc' = "done"
    /\ UNCHANGED <<ADAFRUIT_IO_USERNAME, ADAFRUIT_IO_KEY, request, promise, mqtt, fetches>>

\* fetch resolves with a response of the given status.
FetchResponds(status) ==
    /\ pc = "awaitFetch"
    /\ rest' = [state |-> "responded", status |-> status, data |-> ApiNull]
    /\ IF Ok(status)
       THEN /\ pc' = "awaitJson"
            /\ UNCHANGED <<responses, log>>
       ELSE /\ pc' = "done"
            /\ LET o == NotOkOutcome(status)
               IN  IF o.throws
                   THEN /\ log' = Append(log, CatchLog(o.message))
                        /\ responses' = Append(responses, CatchResponse(o.message))
                   ELSE /\ log' = log
                        /\ responses' = Append(responses, StatusResponse(JNull))
    /\ UNCHANGED <<ADAFRUIT_IO_USERNAME, ADAFRUIT_IO_KEY, request, promise, mqtt, fetches>>

\* apiResponse.json() rejects: the body is not JSON.
JsonRejects ==
    /\ pc = "awaitJson"
    /\ rest' = [rest EXCEPT !.state = "unreadable"]
    /\ log' = Append(log, CatchLog(<<"Unexpected token">>))
    /\ responses' = Append(responses, CatchResponse(<<"Unexpected token">>))
    /\ pc' = "done"
    /\ UNCHANGED <<ADAFRUIT_IO_USERNAME, ADAFRUIT_IO_KEY, request, promise, mqtt, fetches>>

\* apiResponse.json() resolves with data: the rest of handleGetStatus, then
\* the handler's answer.
JsonResolves(data) ==
    /\ pc = "awaitJson"
    /\ rest' = [rest EXCEPT !.state = "read", !.data = data]
    /\ pc' = "done"
    /\ IF NoValue(data)
       THEN /\ log' = log
            /\ responses' = Append(responses, StatusResponse(JNull))
       ELSE LET parsed == JSONParse(data.value)
            IN  IF parsed.ok
                THEN /\ log' = log
                     /\ responses' = Append(responses, StatusResponse(parsed.val))
                ELSE /\ log' = log \o
                            << <<"[JSON_PARSE_ERROR]", "Failed to parse device status:", data.value>>,
                               CatchLog(MalformedData) >>
                     /\ responses' = Append(responses, CatchResponse(MalformedData))
    /\ UNCHANGED <<ADAFRUIT_IO_USERNAME, ADAFRUIT_IO_KEY, request, promise, mqtt, fetches>>

----------------------------------------------------------------------------
Next ==
    \/ \E method \in Methods, body \in Bodies : Handler(method, body)
    \/ OnConnect
    \/ \E err \in PublishErrs : PublishCallback(err)
    \/ \E message \in ErrorMessages : OnError(message)
    \/ ResumeAfterPublish
    \/ FetchRejects
    \/ \E status \in ApiStatuses : FetchResponds(status)
    \/ JsonRejects
    \/ \E data \in ApiBodies : JsonResolves(data)

Spec == Init /\ [][Next]_vars

----------------------------------------------------------------------------
\* Vocabulary of the properties

\* The invocation passed both validation steps with a body to read.
Routed == request.method = "POST" /\ request.body.present
             /\ ~CredentialsMissing(ADAFRUIT_IO_USERNAME, ADAFRUIT_IO_KEY)

PublishInvocation == Routed /\ request.body.action = "send_motor_command"
StatusInvocation == Routed /\ request.body.action = "get_device_status"

EndCalls == Count(mqtt, "client.end")

\* Index of the first publish acknowledgment or error event, 0 if none.
RECURSIVE FirstSettling(_, _)
FirstSettling(seq, i) ==
    IF i > Len(seq) THEN 0
    ELSE IF seq[i][1] \in {"ack", "on:error"} THEN i
    ELSE FirstSettling(seq, i + 1)

\* Entry i of the client's record comes after an entry with one of the tags.
After(i, tags) == \E j \in 1..(i - 1) : mqtt[j][1] \in tags

AckOkAt(i) == mqtt[i][1] = "ack" /\ mqtt[i][2] = NoErr

\* An error event lies between the connect event and the acknowledgment.
ErrorBetweenConnectAndAck ==
    \E c, e, a \in 1..Len(mqtt) :
        /\ c < e /\ e < a
        /\ mqtt[c][1] = "on:connect" /\ mqtt[e][1] = "on:error" /\ mqtt[a][1] = "ack"

----------------------------------------------------------------------------
\* C1: once handlePublish has settled, client.end() has been called exactly
\* once, whatever events the client emitted.
C1_ClosedExactlyOnce ==
    promise.state \in {"fulfilled", "rejected"} => EndCalls = 1

\* C2: an invocation that has ended has sent exactly one response and no
\* exception escaped the handler.
C2_ExactlyOneResponse ==
    pc \in {"done", "threw"} => pc = "done" /\ Len(responses) = 1

\* C3: for send_motor_command the answer follows the outcome of handlePublish:
\* 200/success when the publish was acknowledged without error, 500/error with
\* 'Failed to publish message.' when it was acknowledged with an error, 500/error
\* with 'MQTT connection failed: <message>' when an error event came first;
\* details is the message the promise was rejected with.
C3_PublishOutcomeMapped ==
    (PublishInvocation /\ pc = "done") =>
        LET i == FirstSettling(mqtt, 1)
            r == responses[1]
        IN  /\ Len(responses) = 1
            /\ i > 0
            /\ IF AckOkAt(i)
               THEN r = Response(200, "success", <<"Command published.">>, NoData)
               ELSE /\ r.code = 500 /\ r.status = "error"
                    /\ r.details = promise.reason
                    /\ r.details = IF mqtt[i][1] = "ack" THEN PublishFailed
                                   ELSE ConnectionFailed(mqtt[i][2])

C3_Witness ==
    /\ PublishInvocation /\ pc = "done"
    /\ Count(mqtt, "on:error") = 2
    /\ mqtt[2] = <<"on:error", <<"ECONNREFUSED">>>>
    /\ responses[1].details = <<"MQTT connection failed: ", "ECONNREFUSED">>

\* C4: a POST with credentials and a body whose action is neither
\* send_motor_command nor get_device_status (or is missing) is answered
\* 400/error, and no MQTT connection is opened and no REST request issued.
C4_InvalidAction ==
    (Routed /\ request.body.action \notin {"send_motor_command", "get_device_status"}
            /\ pc # "idle") =>
        /\ pc = "done"
        /\ Len(responses) = 1
        /\ responses[1].code = 400 /\ responses[1].status = "error"
        /\ mqtt = <<>> /\ promise.state = "none"
        /\ fetches = <<>>

C4_Witness ==
    /\ Routed /\ pc = "done"
    /\ request.body.action = Undefined
    /\ responses[1].code = 400

\* C5: a POST when the username or the key is absent is answered 500/error
\* whatever the body, and no MQTT connection or REST request is attempted.
C5_MissingCredentials ==
    (request.method = "POST" /\ pc # "idle"
        /\ (ADAFRUIT_IO_USERNAME = Undefined \/ ADAFRUIT_IO_KEY = Undefined)) =>
        /\ pc = "done"
        /\ Len(responses) = 1
        /\ responses[1].code = 500 /\ responses[1].status = "error"
        /\ mqtt = <<>> /\ promise.state = "none"
        /\ fetches = <<>>

C5_Witness ==
    /\ request.method = "POST" /\ pc = "done"
    /\ ADAFRUIT_IO_USERNAME = "aio_user" /\ ADAFRUIT_IO_KEY = Undefined
    /\ request.body.present /\ request.body.action = "send_motor_command"
    /\ responses[1].code = 500

\* C6: a request whose method is not POST is answered 405/error, with or
\* without credentials and whatever the body.
C6_MethodNotAllowed ==
    (request.method # "POST" /\ pc # "idle") =>
        /\ pc = "done"
        /\ Len(responses) = 1
        /\ responses[1].code = 405 /\ responses[1].status = "error"

C6_Witness ==
    /\ request.method = "GET" /\ pc = "done"
    /\ ADAFRUIT_IO_USERNAME = Undefined
    /\ ~request.body.present
    /\ responses[1].code = 405

\* C7: for get_device_status, a 404 from the REST endpoint, or a successful
\* answer whose body has no value field, is answered 404/error with a details
\* message, and nothing is logged.
C7_NotFound ==
    (StatusInvocation /\ pc = "done"
        /\ \/ rest.state = "responded" /\ rest.status = 404
           \/ rest.state = "read" /\ rest.data.kind = "object" /\ ~rest.data.hasValue) =>
        /\ Len(responses) = 1
        /\ responses[1].code = 404 /\ responses[1].status = "error"
        /\ responses[1].details # <<>>
        /\ responses[1].data = NoData
        /\ log = <<>>

C7_Witness ==
    /\ StatusInvocation /\ pc = "done"
    /\ rest.state = "responded" /\ rest.status = 404
    /\ responses[1].code = 404

\* C8: for get_device_status, a value that is not valid JSON is answered
\* 500/error with the malformed-data message, the raw value is logged and is
\* not in the response.
C8_MalformedValue ==
    (StatusInvocation /\ pc = "done" /\ rest.state = "read" /\ rest.data.hasValue
        /\ ~JSONParse(rest.data.value).ok) =>
        /\ Len(responses) = 1
        /\ responses[1] = Response(500, "error", MalformedData, NoData)
        /\ \E k \in 1..Len(log) :
              log[k] = <<"[JSON_PARSE_ERROR]", "Failed to parse device status:", rest.data.value>>

\* C8 on the values the code does parse: a non-empty value that is not valid
\* JSON is answered 500/error with the malformed-data message and is logged.
C8_NonEmptyMalformedValue ==
    (rest.data.value # <<>>) => C8_MalformedValue

\* C9: for get_device_status, a value that parses as JSON is answered
\* 200/success with data equal to the parsed value.
C9_ParsedValueReturned ==
    (StatusInvocation /\ pc = "done" /\ rest.state = "read" /\ rest.data.hasValue
        /\ JSONParse(rest.data.value).ok) =>
        /\ Len(responses) = 1
        /\ responses[1] = Response(200, "success", <<>>, JSONParse(rest.data.value).val)

\* The parts of C10 that do not concern closing: a message is published only
\* after the connect event, at most one message is published, and a 200 is
\* sent only if the first acknowledgment or error event of the invocation is
\* an acknowledgment without error.
C10_Ordered ==
    /\ \A i \in 1..Len(mqtt) : mqtt[i][1] = "client.publish" => After(i, {"on:connect"})
    /\ Count(mqtt, "client.publish") <= 1
    /\ \A k \in 1..Len(responses) :
          (PublishInvocation /\ responses[k].code = 200) =>
              /\ FirstSettling(mqtt, 1) > 0
              /\ AckOkAt(FirstSettling(mqtt, 1))
              /\ ~ErrorBetweenConnectAndAck

\* C10 as stated: ordered, and client.end() is called only after the publish
\* acknowledgment.
C10_ClosedOnlyAfterAck ==
    /\ C10_Ordered
    /\ \A i \in 1..Len(mqtt) : mqtt[i][1] = "client.end" => After(i, {"ack"})

\* C10 amended: ordered, and client.end() is called only after the publish
\* acknowledgment or after an error event.
C10_ClosedOnlyAfterAckOrError ==
    /\ C10_Ordered
    /\ \A i \in 1..Len(mqtt) : mqtt[i][1] = "client.end" => After(i, {"ack", "on:error"})

C10_Witness ==
    /\ PublishInvocation /\ pc = "done"
    /\ ErrorBetweenConnectAndAck
    /\ \E a \in 1..Len(mqtt) : AckOkAt(a)
    /\ responses[1].code = 500

=============================================================================
